---- MODULE Spec2Model ----
(***************************************************************************)
(* HookManager (src/hook/manager.cpp): a process-wide registry of hook     *)
(* modules, availableHooks, guarded by one std::mutex, and the dispatch    *)
(* functions that walk it.  Threads call the static functions of           *)
(* HookManager concurrently.  Every function is modelled statement by      *)
(* statement at the granularity of one LinkedHashMap operation or one      *)
(* hook call per step, so that the functions that do not take the mutex    *)
(* interleave with the ones that do.                                       *)
(***************************************************************************)
EXTENDS Integers, Sequences, FiniteSets, TLC

(* ------------------------------ bounds --------------------------------- *)

\* Number of HookManager calls started in one behaviour.
MaxOps == 3

\* Longest hook list handed to initialize (after strings::split).
MaxList == 3

(* --------------------------- the environment --------------------------- *)

Threads == {"t1", "t2"}

NoThread == "none"

\* Hook module names a caller may pass.
Names == {"a", "b", "c", "bad"}

\* ModuleManager::contains<Hook>(name) holds for these names only.
Modules == {"a", "b", "c"}

\* The default value of a Hook*; hook instances are the positive integers.
NULL == 0

\* The result of strings::split(hookList, ","): never an empty vector.
HookLists == UNION {[1..n -> Names] : n \in 1..MaxList}

VARIABLES
    keys_,      \* availableHooks: the names, in insertion order
    values_,    \* availableHooks: name -> Hook*
    mutex,      \* the thread inside synchronized (mutex), or NoThread
    created,    \* number of hook instances ModuleManager::create has made
    started,    \* number of HookManager calls started
    crashed,    \* the thread that called a hook through a null Hook*, if any
    pc,         \* per thread: position in the function it runs
    op,         \* per thread: the function it runs
    todo,       \* per thread: the names the foreach loop has still to visit
    hooks,      \* per thread: initialize's vector of names; unload's name
    entry,      \* per thread: availableHooks when the function first read it
    input,      \* per thread: the payload the caller passed
    payload,    \* per thread: the mutable copy the decorator loop updates
    trace,      \* per thread: the hook calls the function has made, in order
    futures,    \* per thread: list<Future<Option<Environment>>> of the fan-out
    completed,  \* per thread: the futures' positions, in order of completion
    ret         \* per thread: the value the function returned

vars == <<keys_, values_, mutex, created, started, crashed,
          pc, op, todo, hooks, entry, input, payload, trace, futures,
          completed, ret>>

\* The variables of a thread that only the dispatch functions use.
dispatchVars == <<input, payload, trace, futures, completed>>

(* ------------------------------ payloads ------------------------------ *)

\* A protobuf optional field that is not set.
Unset == "unset"

\* The values a label set, environment, resource set, attribute set or
\* container status may take.
Values == {"v1", "v2"}

\* What a decorator works on.  `field` is the part of the descriptor the
\* hook type governs: the labels of the TaskInfo or TaskStatus, the command
\* environment of the ExecutorInfo, the resources or attributes of the
\* SlaveInfo.  `container_status` is the second field the TaskStatus
\* decorator governs, and `state` the state of the TaskStatus, which stands
\* for the fields of a descriptor that no hook type governs.
Payload(f, c) ==
    [field |-> f, container_status |-> c, state |-> "TASK_RUNNING"]

\* The states a TaskStatus may carry.
States == {"TASK_RUNNING", "TASK_FAILED"}

\* A TaskStatus with labels f, container status c and state s.
Status(f, c, s) == [field |-> f, container_status |-> c, state |-> s]

NoPayload == Payload(Unset, Unset)

\* What a function handed back: an outcome and, for decorators, a value.
Returned(o, v) == [outcome |-> o, value |-> v]

NoReturn == Returned("none", NoPayload)

\* Result<T> of a decorator hook and Try<Nothing> of a notification hook.
None == [kind |-> "none", value |-> NoPayload]

Error == [kind |-> "error", value |-> NoPayload]

Some(v) == [kind |-> "some", value |-> v]

(* ------------------------- LinkedHashMap<K, V> ------------------------- *)

\* availableHooks.contains(key)
Contains(vals, key) == key \in DOMAIN vals

\* availableHooks[key]: a missing key is appended with a default value.
IndexKeys(ks, vals, key) == IF Contains(vals, key) THEN ks ELSE Append(ks, key)

IndexValues(vals, key) ==
    IF Contains(vals, key) THEN vals
    ELSE [k \in DOMAIN vals \cup {key} |-> IF k = key THEN NULL ELSE vals[k]]

\* availableHooks.erase(key)
EraseKeys(ks, key) == SelectSeq(ks, LAMBDA k : k # key)

EraseValues(vals, key) == [k \in DOMAIN vals \ {key} |-> vals[k]]

Registry == [keys |-> keys_, values |-> values_]

\* What a function finds when it first reads availableHooks.  The number of
\* instances made so far is kept with it: a registry that was changed and
\* looks the same again has had an insertion, hence an instance made, in
\* between.
Snapshot == [keys |-> keys_, values |-> values_, made |-> created]

NoSnapshot == [keys |-> <<>>, values |-> <<>>, made |-> 0]

(* -------------------------------- Init --------------------------------- *)

Init ==
    /\ keys_ = <<>>
    /\ values_ = <<>>
    /\ mutex = NoThread
    /\ created = 0
    /\ started = 0
    /\ crashed = NoThread
    /\ pc = [t \in Threads |-> "idle"]
    /\ op = [t \in Threads |-> "none"]
    /\ todo = [t \in Threads |-> <<>>]
    /\ hooks = [t \in Threads |-> <<>>]
    /\ entry = [t \in Threads |-> NoSnapshot]
    /\ input = [t \in Threads |-> NoPayload]
    /\ payload = [t \in Threads |-> NoPayload]
    /\ trace = [t \in Threads |-> <<>>]
    /\ futures = [t \in Threads |-> <<>>]
    /\ completed = [t \in Threads |-> <<>>]
    /\ ret = [t \in Threads |-> NoReturn]

\* A call through a null pointer ends the process.
Crashed == crashed # NoThread

\* A thread may start a HookManager call when it runs none.  The values of
\* its last call stay in its variables until it starts the next one.
CanStart(t) == pc[t] \in {"idle", "done"} /\ ~Crashed /\ started < MaxOps

\* A registry call leaves nothing of the thread's last dispatch behind.
ResetDispatch(t) ==
    /\ input' = [input EXCEPT ![t] = NoPayload]
    /\ payload' = [payload EXCEPT ![t] = NoPayload]
    /\ trace' = [trace EXCEPT ![t] = <<>>]
    /\ futures' = [futures EXCEPT ![t] = <<>>]
    /\ completed' = [completed EXCEPT ![t] = <<>>]

(* ----------------------- HookManager::initialize ----------------------- *)

InitializeEnter(t, list) ==
    /\ CanStart(t)
    /\ mutex = NoThread
    /\ mutex' = t
    /\ started' = started + 1
    /\ pc' = [pc EXCEPT ![t] = "initialize"]
    /\ op' = [op EXCEPT ![t] = "initialize"]
    /\ hooks' = [hooks EXCEPT ![t] = list]
    /\ todo' = [todo EXCEPT ![t] = list]
    /\ entry' = [entry EXCEPT ![t] = Snapshot]
    /\ ret' = [ret EXCEPT ![t] = NoReturn]
    /\ ResetDispatch(t)
    /\ UNCHANGED <<keys_, values_, created, crashed>>

\* Variant of InitializeFail: the names the call has inserted are taken out
\* again before the error is returned.
InitializeFailRollback(t, error) ==
    /\ pc' = [pc EXCEPT ![t] = "done"]
    /\ ret' = [ret EXCEPT ![t] = Returned(error, NoPayload)]
    /\ mutex' = NoThread
    /\ keys_' = entry[t].keys
    /\ values_' = entry[t].values
    /\ UNCHANGED <<created, todo>>

\* return Error(...) inside synchronized: the mutex is released.
InitializeFail(t, error) ==
    /\ pc' = [pc EXCEPT ![t] = "done"]
    /\ ret' = [ret EXCEPT ![t] = Returned(error, NoPayload)]
    /\ mutex' = NoThread
    /\ UNCHANGED <<keys_, values_, created, todo>>

\* The instance is made and availableHooks[hook] evaluated: a name that is
\* not there is appended with a null Hook*.
InitializeInsert(t, hook) ==
    /\ created' = created + 1
    /\ keys_' = IndexKeys(keys_, values_, hook)
    /\ values_' = IndexValues(values_, hook)
    /\ pc' = [pc EXCEPT ![t] = "store"]
    /\ UNCHANGED <<mutex, todo, ret>>

\* Variant of InitializeStep: availableHooks.contains(hook) is not asked.
InitializeStepUnchecked(t) ==
    /\ pc[t] = "initialize" /\ ~Crashed
    /\ todo[t] # <<>>
    /\ LET hook == Head(todo[t]) IN
       \/ /\ hook \notin Modules
          /\ InitializeFail(t, "NotFound")
       \/ /\ hook \in Modules
          /\ \E module \in {"error", "ok"} :
                IF module = "error"
                THEN InitializeFail(t, "InstantiationFailed")
                ELSE InitializeInsert(t, hook)
    /\ UNCHANGED <<started, crashed, op, hooks, entry, dispatchVars>>

\* One iteration of foreach (hook, hooks), up to availableHooks[hook].
InitializeStep(t) ==
    /\ pc[t] = "initialize" /\ ~Crashed
    /\ todo[t] # <<>>
    /\ LET hook == Head(todo[t]) IN
       \/ /\ Contains(values_, hook)
          /\ InitializeFail(t, "AlreadyLoaded")
       \/ /\ ~Contains(values_, hook)
          /\ hook \notin Modules
          /\ InitializeFail(t, "NotFound")
       \/ /\ ~Contains(values_, hook)
          /\ hook \in Modules
          /\ \E module \in {"error", "ok"} :
                IF module = "error"
                THEN InitializeFail(t, "InstantiationFailed")
                ELSE InitializeInsert(t, hook)
    /\ UNCHANGED <<started, crashed, op, hooks, entry, dispatchVars>>

\* ... = module.get(): the assignment through the reference operator[] gave.
InitializeStore(t) ==
    /\ pc[t] = "store" /\ ~Crashed
    /\ values_' = [values_ EXCEPT ![Head(todo[t])] = created]
    /\ todo' = [todo EXCEPT ![t] = Tail(todo[t])]
    /\ pc' = [pc EXCEPT ![t] = "initialize"]
    /\ UNCHANGED <<keys_, mutex, created, started, crashed, op, hooks, entry,
                   ret, dispatchVars>>

\* The loop is over: the mutex is released and Nothing() returned.
InitializeReturn(t) ==
    /\ pc[t] = "initialize" /\ ~Crashed
    /\ todo[t] = <<>>
    /\ mutex' = NoThread
    /\ pc' = [pc EXCEPT ![t] = "done"]
    /\ ret' = [ret EXCEPT ![t] = Returned("Nothing", NoPayload)]
    /\ UNCHANGED <<keys_, values_, created, started, crashed, op, todo, hooks,
                   entry, dispatchVars>>

(* ------------------------- HookManager::unload ------------------------- *)

\* synchronized (mutex) {
UnloadEnter(t, hookName) ==
    /\ CanStart(t)
    /\ mutex = NoThread
    /\ mutex' = t
    /\ started' = started + 1
    /\ pc' = [pc EXCEPT ![t] = "unload"]
    /\ op' = [op EXCEPT ![t] = "unload"]
    /\ hooks' = [hooks EXCEPT ![t] = <<hookName>>]
    /\ todo' = [todo EXCEPT ![t] = <<hookName>>]
    /\ entry' = [entry EXCEPT ![t] = Snapshot]
    /\ ret' = [ret EXCEPT ![t] = NoReturn]
    /\ ResetDispatch(t)
    /\ UNCHANGED <<keys_, values_, created, crashed>>

\* Variant of UnloadStep: availableHooks.contains(hookName) is not asked.
UnloadStepUnchecked(t) ==
    /\ pc[t] = "unload" /\ ~Crashed
    /\ keys_' = EraseKeys(keys_, Head(todo[t]))
    /\ values_' = EraseValues(values_, Head(todo[t]))
    /\ ret' = [ret EXCEPT ![t] = Returned("Nothing", NoPayload)]
    /\ mutex' = NoThread
    /\ pc' = [pc EXCEPT ![t] = "done"]
    /\ UNCHANGED <<created, started, crashed, op, todo, hooks, entry,
                   dispatchVars>>

\* The body: an error for a name that is not there, erase otherwise; the
\* mutex is released either way.
UnloadStep(t) ==
    /\ pc[t] = "unload" /\ ~Crashed
    /\ LET hookName == Head(todo[t]) IN
       IF ~Contains(values_, hookName)
       THEN /\ ret' = [ret EXCEPT ![t] = Returned("NotLoaded", NoPayload)]
            /\ UNCHANGED <<keys_, values_>>
       ELSE /\ keys_' = EraseKeys(keys_, hookName)
            /\ values_' = EraseValues(values_, hookName)
            /\ ret' = [ret EXCEPT ![t] = Returned("Nothing", NoPayload)]
    /\ mutex' = NoThread
    /\ pc' = [pc EXCEPT ![t] = "done"]
    /\ UNCHANGED <<created, started, crashed, op, todo, hooks, entry,
                   dispatchVars>>

(* --------------------- HookManager::hooksAvailable --------------------- *)

\* synchronized (mutex) { return !availableHooks.empty(); }: the mutex is
\* taken and released around the one read.
HooksAvailable(t) ==
    /\ CanStart(t)
    /\ mutex = NoThread
    /\ started' = started + 1
    /\ pc' = [pc EXCEPT ![t] = "done"]
    /\ op' = [op EXCEPT ![t] = "hooksAvailable"]
    /\ hooks' = [hooks EXCEPT ![t] = <<>>]
    /\ todo' = [todo EXCEPT ![t] = <<>>]
    /\ entry' = [entry EXCEPT ![t] = Snapshot]
    /\ ret' = [ret EXCEPT ![t] =
                  Returned(IF keys_ = <<>> THEN "false" ELSE "true", NoPayload)]
    /\ ResetDispatch(t)
    /\ UNCHANGED <<keys_, values_, mutex, created, crashed>>

(* ------------------- sequential decorator dispatch --------------------- *)

\* masterLaunchTaskLabelDecorator, slaveRunTaskLabelDecorator,
\* slaveExecutorEnvironmentDecorator, slaveResourcesDecorator and
\* slaveAttributesDecorator copy the hook's value over one field and return
\* that field; slaveTaskStatusDecorator copies labels and container status
\* separately and returns the whole status.
FieldDecorators ==
    {"masterLaunchTaskLabelDecorator", "slaveRunTaskLabelDecorator",
     "slaveExecutorEnvironmentDecorator", "slaveResourcesDecorator",
     "slaveAttributesDecorator"}

Decorators == FieldDecorators \cup {"slaveTaskStatusDecorator"}

\* The payloads a caller may pass to decorator f.
Inputs(f) ==
    IF f \in FieldDecorators
    THEN {Payload(v, Unset) : v \in Values}
    ELSE {Payload(v, c) : v \in Values, c \in Values \cup {Unset}}

\* The values a hook of decorator f may return inside Some(...).
Replacements(f) ==
    IF f \in FieldDecorators
    THEN {Payload(v, Unset) : v \in Values}
    ELSE {Status(v, c, st) :
             v \in Values \cup {Unset}, c \in Values \cup {Unset}, st \in States}

\* What a hook of decorator f may return.
Results(f) == {None, Error} \cup {Some(v) : v \in Replacements(f)}

AllResults == UNION {Results(f) : f \in Decorators}

\* Variant of CopyFrom: status.CopyFrom(result.get()), the whole message at
\* once.
CopyFromWhole(f, p, value) ==
    IF f \in FieldDecorators THEN [p EXCEPT !.field = value.field] ELSE value

\* ...CopyFrom(result.get()), with has_labels() and has_container_status()
\* asked first by the TaskStatus decorator.
CopyFrom(f, p, value) ==
    IF f \in FieldDecorators
    THEN [p EXCEPT !.field = value.field]
    ELSE [p EXCEPT
            !.field = IF value.field # Unset THEN value.field ELSE @,
            !.container_status =
               IF value.container_status # Unset
               THEN value.container_status ELSE @]

\* Variant of Decorate: if (!result.isNone()) instead of if (result.isSome()),
\* so that the empty value of an error result is copied too.
DecorateUnlessNone(f, p, result) ==
    IF result.kind = "none" THEN p
    ELSE IF f \in FieldDecorators
    THEN [p EXCEPT !.field = result.value.field]
    ELSE result.value

\* if (result.isSome()) { ...CopyFrom(result.get()) }
Decorate(f, p, result) ==
    IF result.kind # "some" THEN p ELSE CopyFrom(f, p, result.value)

\* Variant of DecoratorValue: every decorator returns the labels only.
DecoratorValueLabels(f, p) == Payload(p.field, Unset)

\* return taskInfo_.labels() and the like; return status.
DecoratorValue(f, p) ==
    IF f \in FieldDecorators THEN Payload(p.field, Unset) ELSE p

\* One record of trace: hook `hook` of module `name` was called with `arg`
\* and returned `result`.
Call(name, hook, arg, result) ==
    [name |-> name, hook |-> hook, arg |-> arg, result |-> result]

\* The mutable copy of the payload is made and availableHooks.keys() is
\* evaluated for the foreach loop.
DecoratorBegin(t, f, arg) ==
    /\ CanStart(t)
    /\ started' = started + 1
    /\ pc' = [pc EXCEPT ![t] = "decorate"]
    /\ op' = [op EXCEPT ![t] = f]
    /\ todo' = [todo EXCEPT ![t] = keys_]
    /\ entry' = [entry EXCEPT ![t] = Snapshot]
    /\ input' = [input EXCEPT ![t] = arg]
    /\ payload' = [payload EXCEPT ![t] = arg]
    /\ trace' = [trace EXCEPT ![t] = <<>>]
    /\ futures' = [futures EXCEPT ![t] = <<>>]
    /\ completed' = [completed EXCEPT ![t] = <<>>]
    /\ hooks' = [hooks EXCEPT ![t] = <<>>]
    /\ ret' = [ret EXCEPT ![t] = NoReturn]
    /\ UNCHANGED <<keys_, values_, created, crashed>>

\* Variant of DecoratorEnter: the decorator runs without synchronized (mutex),
\* as the notification functions do.
DecoratorEnterUnlocked(t, f, arg) ==
    /\ DecoratorBegin(t, f, arg)
    /\ UNCHANGED mutex

\* synchronized (mutex) { ... the loop starts with the mutex held.
DecoratorEnter(t, f, arg) ==
    /\ mutex = NoThread
    /\ mutex' = t
    /\ DecoratorBegin(t, f, arg)

\* Variant of DecoratorCall: the hook is given the caller's descriptor, not
\* the mutable copy.
DecoratorCallWithInput(t, result) ==
    /\ pc[t] = "decorate" /\ ~Crashed
    /\ todo[t] # <<>>
    /\ result \in Results(op[t])
    /\ LET name == Head(todo[t])
           hook == IndexValues(values_, name)[name]
       IN /\ keys_' = IndexKeys(keys_, values_, name)
          /\ values_' = IndexValues(values_, name)
          /\ IF hook = NULL
             THEN /\ crashed' = t
                  /\ UNCHANGED <<todo, payload, trace>>
             ELSE /\ trace' = [trace EXCEPT ![t] =
                        Append(@, Call(name, hook, input[t], result))]
                  /\ payload' = [payload EXCEPT ![t] =
                        Decorate(op[t], @, result)]
                  /\ todo' = [todo EXCEPT ![t] = Tail(@)]
                  /\ UNCHANGED crashed
    /\ UNCHANGED <<mutex, created, started, pc, op, hooks, entry, input,
                   futures, completed, ret>>

\* One iteration: Hook* hook = availableHooks[name]; result = hook->f(...);
\* the payload is updated from the result.
DecoratorCall(t, result) ==
    /\ pc[t] = "decorate" /\ ~Crashed
    /\ todo[t] # <<>>
    /\ result \in Results(op[t])
    /\ LET name == Head(todo[t])
           hook == IndexValues(values_, name)[name]
       IN /\ keys_' = IndexKeys(keys_, values_, name)
          /\ values_' = IndexValues(values_, name)
          /\ IF hook = NULL
             THEN /\ crashed' = t
                  /\ UNCHANGED <<todo, payload, trace>>
             ELSE /\ trace' = [trace EXCEPT ![t] =
                        Append(@, Call(name, hook, payload[t], result))]
                  /\ payload' = [payload EXCEPT ![t] =
                        Decorate(op[t], @, result)]
                  /\ todo' = [todo EXCEPT ![t] = Tail(@)]
                  /\ UNCHANGED crashed
    /\ UNCHANGED <<mutex, created, started, pc, op, hooks, entry, input,
                   futures, completed, ret>>

\* Variant of DecoratorReturn: the caller's payload is returned instead of
\* the mutable copy.
DecoratorReturnInput(t) ==
    /\ pc[t] = "decorate" /\ ~Crashed
    /\ todo[t] = <<>>
    /\ mutex' = NoThread
    /\ pc' = [pc EXCEPT ![t] = "done"]
    /\ ret' = [ret EXCEPT ![t] =
                  Returned("value", DecoratorValue(op[t], input[t]))]
    /\ UNCHANGED <<keys_, values_, created, started, crashed, op, todo, hooks,
                   entry, dispatchVars>>

\* The loop is over: the value is returned and the mutex released.
DecoratorReturn(t) ==
    /\ pc[t] = "decorate" /\ ~Crashed
    /\ todo[t] = <<>>
    /\ mutex' = NoThread
    /\ pc' = [pc EXCEPT ![t] = "done"]
    /\ ret' = [ret EXCEPT ![t] =
                  Returned("value", DecoratorValue(op[t], payload[t]))]
    /\ UNCHANGED <<keys_, values_, created, started, crashed, op, todo, hooks,
                   entry, dispatchVars>>

(* ------------------- fire-and-forget notification ---------------------- *)

Notifications ==
    {"masterSlaveLostHook", "slavePreLaunchDockerHook", "slavePostFetchHook",
     "slaveRemoveExecutorHook"}

\* Try<Nothing> of a notification hook.
Tries == {Some(NoPayload), Error}

\* foreach (name, availableHooks.keys()): the list of names is copied; no
\* mutex is taken.
NotifyEnter(t, f) ==
    /\ CanStart(t)
    /\ started' = started + 1
    /\ pc' = [pc EXCEPT ![t] = "notify"]
    /\ op' = [op EXCEPT ![t] = f]
    /\ todo' = [todo EXCEPT ![t] = keys_]
    /\ entry' = [entry EXCEPT ![t] = Snapshot]
    /\ input' = [input EXCEPT ![t] = NoPayload]
    /\ payload' = [payload EXCEPT ![t] = NoPayload]
    /\ trace' = [trace EXCEPT ![t] = <<>>]
    /\ futures' = [futures EXCEPT ![t] = <<>>]
    /\ completed' = [completed EXCEPT ![t] = <<>>]
    /\ hooks' = [hooks EXCEPT ![t] = <<>>]
    /\ ret' = [ret EXCEPT ![t] = NoReturn]
    /\ UNCHANGED <<keys_, values_, mutex, created, crashed>>

\* Variant of NotifyRest: the loop is left when a hook returns an error.
NotifyRestUntilError(names, result) ==
    IF result.kind = "error" THEN <<>> ELSE Tail(names)

\* The next names of the loop after a hook returned result.
NotifyRest(names, result) == Tail(names)

\* One iteration: Hook* hook = availableHooks[name]; result = hook->f(...);
\* an error is logged.
NotifyCall(t, result) ==
    /\ pc[t] = "notify" /\ ~Crashed
    /\ todo[t] # <<>>
    /\ result \in Tries
    /\ LET name == Head(todo[t])
           hook == IndexValues(values_, name)[name]
       IN /\ keys_' = IndexKeys(keys_, values_, name)
          /\ values_' = IndexValues(values_, name)
          /\ IF hook = NULL
             THEN /\ crashed' = t
                  /\ UNCHANGED <<todo, trace>>
             ELSE /\ trace' = [trace EXCEPT ![t] =
                        Append(@, Call(name, hook, NoPayload, result))]
                  /\ todo' = [todo EXCEPT ![t] = NotifyRest(@, result)]
                  /\ UNCHANGED crashed
    /\ UNCHANGED <<mutex, created, started, pc, op, hooks, entry, input,
                   payload, futures, completed, ret>>

\* The loop is over: the function returns nothing.
NotifyReturn(t) ==
    /\ pc[t] = "notify" /\ ~Crashed
    /\ todo[t] = <<>>
    /\ pc' = [pc EXCEPT ![t] = "done"]
    /\ ret' = [ret EXCEPT ![t] = Returned("void", NoPayload)]
    /\ UNCHANGED <<keys_, values_, mutex, created, started, crashed, op, todo,
                   hooks, entry, dispatchVars>>

(* ---------------------- asynchronous fan-out ---------------------------- *)

\* Environment::Variable
Variable(n, v) == [name |-> n, value |-> v]

\* The Environment messages a hook may produce: its variables, in order.
Environments ==
    { <<Variable("FOO", "1")>>,
      <<Variable("FOO", "2"), Variable("BAR", "x")>>,
      <<Variable("BAR", "y"), Variable("BAR", "1")>> }

\* Option<T>: None() is the empty sequence, Some(v) the sequence of v.
Absent == <<>>

Present(v) == <<v>>

\* The base environment a caller may pass (Option<map<string, string>>).
BaseEnvironments == {Absent, Present([n \in {"FOO"} |-> "0"])}

\* Future<Option<Environment>>
Future(state, value) == [state |-> state, value |-> value]

\* What the future of one hook may complete with: a failure, None, or
\* Some(environment).
Completions ==
    {Future("failed", Absent), Future("ready", Absent)}
    \cup {Future("ready", Present(e)) : e \in Environments}

\* Variant of PutVariables: environment.insert({name, value}), which keeps
\* the value a name already has.
RECURSIVE PutVariablesInsert(_, _)
PutVariablesInsert(environment, variables) ==
    IF variables = <<>> THEN environment
    ELSE LET v == Head(variables) IN
         PutVariablesInsert(
            [n \in DOMAIN environment \cup {v.name} |->
                IF n \in DOMAIN environment THEN environment[n] ELSE v.value],
            Tail(variables))

\* environment[variable.name()] = variable.value() for each variable in turn.
RECURSIVE PutVariables(_, _)
PutVariables(environment, variables) ==
    IF variables = <<>> THEN environment
    ELSE LET v == Head(variables) IN
         PutVariables(
            [n \in DOMAIN environment \cup {v.name} |->
                IF n = v.name THEN v.value ELSE environment[n]],
            Tail(variables))

\* The lambda given to then(): combine all the Environments, in list order.
RECURSIVE Combine(_, _)
Combine(environment, results) ==
    IF results = <<>> THEN environment
    ELSE IF Head(results).value = Absent
    THEN Combine(environment, Tail(results))
    ELSE Combine(PutVariables(environment, Head(results).value[1]),
                 Tail(results))

\* Variant of Collect: a failed future counts as one that returned None(),
\* so that the variables of the other hooks are still delivered.
CollectSkippingFailed(futs) ==
    IF \A i \in DOMAIN futs : futs[i].state \in {"ready", "failed"}
    THEN Returned("ready", Payload(Combine(<<>>, futs), Unset))
    ELSE Returned("pending", NoPayload)

\* Variant of Collect: the continuation runs over the futures that are ready
\* without waiting for the pending ones.
CollectWithoutWaiting(futs) ==
    IF \E i \in DOMAIN futs : futs[i].state = "failed"
    THEN Returned("failed", NoPayload)
    ELSE Returned("ready", Payload(Combine(<<>>, futs), Unset))

\* collect(futures).then(...): failed once a future has failed, ready with
\* the combined map once every future is ready, pending otherwise.
Collect(futs) ==
    IF \E i \in DOMAIN futs : futs[i].state = "failed"
    THEN Returned("failed", NoPayload)
    ELSE IF \A i \in DOMAIN futs : futs[i].state = "ready"
    THEN Returned("ready", Payload(Combine(<<>>, futs), Unset))
    ELSE Returned("pending", NoPayload)

\* foreach (name, availableHooks.keys()): the list of names is copied; no
\* mutex is taken.
AsyncEnter(t, env) ==
    /\ CanStart(t)
    /\ started' = started + 1
    /\ pc' = [pc EXCEPT ![t] = "fanout"]
    /\ op' = [op EXCEPT ![t] = "slavePreLaunchDockerEnvironmentDecorator"]
    /\ todo' = [todo EXCEPT ![t] = keys_]
    /\ entry' = [entry EXCEPT ![t] = Snapshot]
    /\ input' = [input EXCEPT ![t] = Payload(env, Unset)]
    /\ payload' = [payload EXCEPT ![t] = NoPayload]
    /\ trace' = [trace EXCEPT ![t] = <<>>]
    /\ futures' = [futures EXCEPT ![t] = <<>>]
    /\ completed' = [completed EXCEPT ![t] = <<>>]
    /\ hooks' = [hooks EXCEPT ![t] = <<>>]
    /\ ret' = [ret EXCEPT ![t] = NoReturn]
    /\ UNCHANGED <<keys_, values_, mutex, created, crashed>>

\* One iteration: Hook* hook = availableHooks[name]; the future the hook
\* returns is pushed back.
AsyncCall(t) ==
    /\ pc[t] = "fanout" /\ ~Crashed
    /\ todo[t] # <<>>
    /\ LET name == Head(todo[t])
           hook == IndexValues(values_, name)[name]
       IN /\ keys_' = IndexKeys(keys_, values_, name)
          /\ values_' = IndexValues(values_, name)
          /\ IF hook = NULL
             THEN /\ crashed' = t
                  /\ UNCHANGED <<todo, trace, futures>>
             ELSE /\ trace' = [trace EXCEPT ![t] =
                        Append(@, Call(name, hook, input[t], None))]
                  /\ futures' = [futures EXCEPT ![t] =
                        Append(@, Future("pending", Absent))]
                  /\ todo' = [todo EXCEPT ![t] = Tail(@)]
                  /\ UNCHANGED crashed
    /\ UNCHANGED <<mutex, created, started, pc, op, hooks, entry, input,
                   payload, completed, ret>>

\* Variant of AsyncCollect: the continuation starts from the caller's env
\* instead of an empty map, so that the variables of env that no hook
\* returned are in the result.
AsyncCollectOverBase(t) ==
    /\ pc[t] = "fanout" /\ ~Crashed
    /\ todo[t] = <<>>
    /\ LET result == Collect(futures[t])
           env == IF input[t].field = Absent THEN <<>> ELSE input[t].field[1]
           map == result.value.field
       IN
       /\ pc' = [pc EXCEPT ![t] =
                    IF result.outcome = "pending" THEN "await" ELSE "done"]
       /\ ret' = [ret EXCEPT ![t] =
             IF result.outcome # "ready" THEN result
             ELSE Returned("ready",
                     Payload([n \in DOMAIN env \cup DOMAIN map |->
                                 IF n \in DOMAIN map THEN map[n] ELSE env[n]],
                             Unset))]
    /\ UNCHANGED <<keys_, values_, mutex, created, started, crashed, op, todo,
                   hooks, entry, dispatchVars>>

\* The loop is over: collect(futures).then(...) is returned to the caller,
\* who waits for it.
AsyncCollect(t) ==
    /\ pc[t] = "fanout" /\ ~Crashed
    /\ todo[t] = <<>>
    /\ LET result == Collect(futures[t]) IN
       /\ pc' = [pc EXCEPT ![t] =
                    IF result.outcome = "pending" THEN "await" ELSE "done"]
       /\ ret' = [ret EXCEPT ![t] = result]
    /\ UNCHANGED <<keys_, values_, mutex, created, started, crashed, op, todo,
                   hooks, entry, dispatchVars>>

\* The futures in the order they completed, those still pending last.
ByCompletion(futs, order) ==
    [k \in DOMAIN futs |->
        IF k <= Len(order) THEN futs[order[k]] ELSE Future("pending", Absent)]

\* Variant of AsyncComplete: the collected future hands the results to the
\* continuation in the order the futures completed.
AsyncCompleteInOrderOfCompletion(t, i, completion) ==
    /\ pc[t] \in {"fanout", "await"} /\ ~Crashed
    /\ i \in DOMAIN futures[t]
    /\ futures[t][i].state = "pending"
    /\ futures' = [futures EXCEPT ![t][i] = completion]
    /\ completed' = [completed EXCEPT ![t] = Append(@, i)]
    /\ IF pc[t] = "await"
       THEN LET result == Collect(ByCompletion(futures'[t], completed'[t])) IN
            /\ pc' = [pc EXCEPT ![t] =
                         IF result.outcome = "pending" THEN "await" ELSE "done"]
            /\ ret' = [ret EXCEPT ![t] = result]
       ELSE UNCHANGED <<pc, ret>>
    /\ UNCHANGED <<keys_, values_, mutex, created, started, crashed, op, todo,
                   hooks, entry, input, payload, trace>>

\* The future of the i-th hook completes; when the caller already waits on
\* the collected future, that one follows.
AsyncComplete(t, i, completion) ==
    /\ pc[t] \in {"fanout", "await"} /\ ~Crashed
    /\ i \in DOMAIN futures[t]
    /\ futures[t][i].state = "pending"
    /\ futures' = [futures EXCEPT ![t][i] = completion]
    /\ completed' = [completed EXCEPT ![t] = Append(@, i)]
    /\ IF pc[t] = "await"
       THEN LET result == Collect(futures'[t]) IN
            /\ pc' = [pc EXCEPT ![t] =
                         IF result.outcome = "pending" THEN "await" ELSE "done"]
            /\ ret' = [ret EXCEPT ![t] = result]
       ELSE UNCHANGED <<pc, ret>>
    /\ UNCHANGED <<keys_, values_, mutex, created, started, crashed, op, todo,
                   hooks, entry, input, payload, trace>>

(* --------------------------- specifications ---------------------------- *)

\* Hook lists of concurrent callers: two loadable names, one loadable name,
\* a loadable name followed by one the module manager does not know.
SomeLists == {<<"a", "b">>, <<"a">>, <<"c", "bad">>}

\* Any thread calls initialize, unload or a dispatch function at any time.  Hooks return None() or one
\* replacement, notifications succeed or fail, futures fail or are ready.
Next ==
    \/ \E t \in Threads, list \in SomeLists : InitializeEnter(t, list)
    \/ \E t \in Threads : InitializeStep(t)
    \/ \E t \in Threads : InitializeStore(t)
    \/ \E t \in Threads : InitializeReturn(t)
    \/ \E t \in Threads, hookName \in {"a", "c"} : UnloadEnter(t, hookName)
    \/ \E t \in Threads : UnloadStep(t)
    \/ \E t \in Threads, f \in Decorators :
          DecoratorEnter(t, f, Payload("v1", Unset))
    \/ \E t \in Threads, result \in {None, Some(Payload("v2", Unset))} :
          DecoratorCall(t, result)
    \/ \E t \in Threads : DecoratorReturn(t)
    \/ \E t \in Threads, f \in Notifications : NotifyEnter(t, f)
    \/ \E t \in Threads, result \in Tries : NotifyCall(t, result)
    \/ \E t \in Threads : NotifyReturn(t)
    \/ \E t \in Threads : AsyncEnter(t, Absent)
    \/ \E t \in Threads : AsyncCall(t)
    \/ \E t \in Threads : AsyncCollect(t)
    \/ \E t \in Threads, i \in 1..Cardinality(Modules) :
          \E completion \in {Future("failed", Absent), Future("ready", Absent)} :
             AsyncComplete(t, i, completion)

Spec == Init /\ [][Next]_vars

\* One thread loads and unloads, with every hook list and every name.
NextRegistry ==
    \/ \E list \in HookLists : InitializeEnter("t1", list)
    \/ InitializeStep("t1")
    \/ InitializeStore("t1")
    \/ InitializeReturn("t1")
    \/ \E hookName \in Names : UnloadEnter("t1", hookName)
    \/ UnloadStep("t1")

SpecRegistry == Init /\ [][NextRegistry]_vars

\* Thread t1 loads three hooks and runs every decorator with every payload,
\* the hooks returning every result; thread t2 unloads a hook in between.
NextDecorate ==
    \/ InitializeEnter("t1", <<"a", "b", "c">>)
    \/ InitializeStep("t1")
    \/ InitializeStore("t1")
    \/ InitializeReturn("t1")
    \/ \E f \in Decorators : \E arg \in Inputs(f) :
          DecoratorEnter("t1", f, arg)
    \/ \E result \in AllResults : DecoratorCall("t1", result)
    \/ DecoratorReturn("t1")
    \/ UnloadEnter("t2", "b")
    \/ UnloadStep("t2")

SpecDecorate == Init /\ [][NextDecorate]_vars

\* Thread t1 sends every notification, the hooks succeeding or failing;
\* thread t2 loads and unloads before, during and after.
NextNotify ==
    \/ \E f \in Notifications : NotifyEnter("t1", f)
    \/ \E result \in Tries : NotifyCall("t1", result)
    \/ NotifyReturn("t1")
    \/ \E list \in {<<"a", "b", "c">>, <<"b">>} : InitializeEnter("t2", list)
    \/ InitializeStep("t2")
    \/ InitializeStore("t2")
    \/ InitializeReturn("t2")
    \/ UnloadEnter("t2", "b")
    \/ UnloadStep("t2")

SpecNotify == Init /\ [][NextNotify]_vars

\* Thread t1 runs the fan-out with every base environment, the futures of
\* the hooks completing in any order with every completion, or never;
\* thread t2 loads and unloads before, during and after.
NextAsync ==
    \/ \E env \in BaseEnvironments : AsyncEnter("t1", env)
    \/ AsyncCall("t1")
    \/ AsyncCollect("t1")
    \/ \E i \in 1..Cardinality(Modules) : \E completion \in Completions :
          AsyncComplete("t1", i, completion)
    \/ \E list \in {<<"a", "b", "c">>, <<"a", "b">>} :
          InitializeEnter("t2", list)
    \/ InitializeStep("t2")
    \/ InitializeStore("t2")
    \/ InitializeReturn("t2")
    \/ UnloadEnter("t2", "b")
    \/ UnloadStep("t2")

SpecAsync == Init /\ [][NextAsync]_vars

\* Thread t1 asks whether hooks are loaded and runs every decorator and
\* every notification; thread t2 loads and unloads one hook, so that the
\* dispatches run before the first load, after it and after the unload.
NextEmpty ==
    \/ HooksAvailable("t1")
    \/ \E f \in Decorators : \E arg \in Inputs(f) :
          DecoratorEnter("t1", f, arg)
    \/ \E result \in AllResults : DecoratorCall("t1", result)
    \/ DecoratorReturn("t1")
    \/ \E f \in Notifications : NotifyEnter("t1", f)
    \/ \E result \in Tries : NotifyCall("t1", result)
    \/ NotifyReturn("t1")
    \/ InitializeEnter("t2", <<"a">>)
    \/ InitializeStep("t2")
    \/ InitializeStore("t2")
    \/ InitializeReturn("t2")
    \/ UnloadEnter("t2", "a")
    \/ UnloadStep("t2")

SpecEmpty == Init /\ [][NextEmpty]_vars

\* SpecAsync with a thread that, once inside the fan-out, goes on running:
\* it makes the next hook call and returns the collected future whenever it
\* can.  Nothing obliges a hook's future to complete.
SpecAsyncLive ==
    /\ SpecAsync
    /\ WF_vars(AsyncCall("t1"))
    /\ WF_vars(AsyncCollect("t1"))

(* ----------------------------- properties ------------------------------ *)

\* Thread u is between two hook calls of one decorator dispatch.
Midway(u) == pc[u] = "decorate" /\ trace[u] # <<>> /\ todo[u] # <<>>

\* This step is a hook call of a decorator dispatch of thread t.
DecoratorCalls(t) == pc[t] = "decorate" /\ trace'[t] # trace[t]

\* C1: the hook calls of two decorator dispatches on different threads never
\* interleave: when a dispatch calls a hook, no other thread is between two
\* hook calls of its own decorator dispatch.
C1_DecoratorsNeverInterleave ==
    [][\A t \in Threads : DecoratorCalls(t) =>
          \A u \in Threads \ {t} : ~Midway(u)]_vars

\* Two decorator dispatches of different event types on two threads have
\* both called hooks: one is over after two calls, the other has made one.
C1_Witness ==
    \E t \in Threads, u \in Threads :
       /\ t # u
       /\ op[t] \in Decorators /\ op[u] \in Decorators /\ op[t] # op[u]
       /\ pc[t] = "done" /\ Len(trace[t]) >= 2
       /\ pc[u] = "decorate" /\ Len(trace[u]) >= 1

\* This step evaluates availableHooks.keys() for a dispatch of thread t.
ReadsKeys(t) ==
    pc[t] \in {"idle", "done"} /\ pc'[t] \in {"decorate", "notify", "fanout"}

\* This step evaluates availableHooks[name] for a dispatch of thread t.
ReadsHandle(t) ==
    /\ pc[t] \in {"decorate", "notify", "fanout"}
    /\ todo[t] # <<>>
    /\ todo'[t] # todo[t] \/ (crashed' = t /\ crashed # t)

\* Thread u is inside the critical section of initialize or unload.
InCriticalSection(u) ==
    mutex = u /\ pc[u] \in {"initialize", "store", "unload"}

\* C2: no dispatch of any kind reads the registry (its name list or a
\* handle) while another thread is inside the critical section of
\* initialize or unload.
C2_ReadsExcludeMutation ==
    [][\A t \in Threads : ReadsKeys(t) \/ ReadsHandle(t) =>
          \A u \in Threads \ {t} : ~InCriticalSection(u)]_vars

\* The names that stand for a hook instance.
Loaded(vals) == {n \in DOMAIN vals : vals[n] # NULL}

\* The names initialize has inserted so far in the call thread t runs.
Inserted(t) == {hooks[t][i] : i \in 1..(Len(hooks[t]) - Len(todo[t]))}

\* This step is a return Error(...) of initialize on thread t.
InitializeFails(t) ==
    pc[t] = "initialize" /\ pc'[t] = "done" /\ ret'[t].outcome # "Nothing"

\* C3: a failing initialize stops at the first name that is already loaded,
\* unknown or not instantiable, and rolls nothing back: the step leaves the
\* registry as it is, every entry present at the start of the call is still
\* there with its instance, every name before the failing one was inserted
\* by the call and is loaded, and nothing else is: the failing name and the
\* names after it are not inserted.
C3_FailingInitializeKeepsPrefix ==
    [][\A t \in Threads : InitializeFails(t) =>
          LET failing == Head(todo[t]) IN
          /\ keys_' = keys_ /\ values_' = values_
          /\ \A n \in DOMAIN entry[t].values :
                n \in DOMAIN values_ /\ values_[n] = entry[t].values[n]
          /\ \A n \in Inserted(t) :
                n \in Loaded(values_) /\ n \notin DOMAIN entry[t].values
          /\ Loaded(values_) = Loaded(entry[t].values) \cup Inserted(t)
          /\ ret'[t].outcome =
                IF failing \in DOMAIN values_ THEN "AlreadyLoaded"
                ELSE IF failing \notin Modules THEN "NotFound"
                ELSE "InstantiationFailed"]_vars

\* initialize of a, bad, c on an empty registry has returned the not-found
\* error: a is loaded, bad and c are not.
C3_Witness ==
    \E t \in Threads :
       /\ pc[t] = "done" /\ op[t] = "initialize"
       /\ hooks[t] = <<"a", "bad", "c">>
       /\ entry[t].keys = <<>>
       /\ ret[t].outcome = "NotFound"
       /\ keys_ = <<"a">> /\ values_["a"] # NULL

\* The registry holds every name once.
KeysUnique ==
    /\ \A i, j \in DOMAIN keys_ : keys_[i] = keys_[j] => i = j
    /\ {keys_[i] : i \in DOMAIN keys_} = DOMAIN values_

\* This step is one iteration of initialize's loop on thread t.
InitializeIterates(t) ==
    pc[t] = "initialize" /\ todo[t] # <<>> /\ pc'[t] # pc[t]

\* C4: an iteration of initialize over a name that is in the registry, from
\* an earlier call or from earlier in the same list, returns the
\* already-loaded error and leaves the registry, and so the entry's instance
\* and position, as it is; the registry never holds a name twice.
C4_LoadedNameIsRefused ==
    /\ []KeysUnique
    /\ [][\A t \in Threads :
             InitializeIterates(t) /\ Head(todo[t]) \in DOMAIN values_ =>
                /\ pc'[t] = "done"
                /\ ret'[t].outcome = "AlreadyLoaded"
                /\ keys_' = keys_ /\ values_' = values_]_vars

\* initialize of b, a has returned the already-loaded error for a, which an
\* earlier call loaded: a is where it was, with the instance it had.
C4_Witness ==
    \E t \in Threads :
       /\ pc[t] = "done" /\ op[t] = "initialize"
       /\ hooks[t] = <<"b", "a">>
       /\ ret[t].outcome = "AlreadyLoaded"
       /\ entry[t].keys = <<"a">> /\ entry[t].values["a"] # NULL
       /\ keys_ = <<"a", "b">>
       /\ values_["a"] = entry[t].values["a"]

\* This step is the body of unload on thread t.
Unloads(t) == pc[t] = "unload" /\ pc'[t] = "done"

\* Sequence ks without its i-th element.
Without(ks, i) == SubSeq(ks, 1, i - 1) \o SubSeq(ks, i + 1, Len(ks))

\* C5: unload of a name that is not in the registry returns the not-loaded
\* error and leaves the registry as it is; unload of a name that is there
\* takes exactly that entry out and leaves the others, their instances and
\* their relative order as they are.
C5_UnloadRemovesOneEntry ==
    [][\A t \in Threads : Unloads(t) =>
          LET hookName == Head(todo[t]) IN
          IF hookName \notin DOMAIN values_
          THEN /\ ret'[t].outcome = "NotLoaded"
               /\ keys_' = keys_ /\ values_' = values_
          ELSE /\ ret'[t].outcome = "Nothing"
               /\ \E i \in DOMAIN keys_ :
                     keys_[i] = hookName /\ keys_' = Without(keys_, i)
               /\ DOMAIN values_' = DOMAIN values_ \ {hookName}
               /\ \A n \in DOMAIN values_' : values_'[n] = values_[n]]_vars

\* unload of b from the registry a, b, c has returned: a and c are left, in
\* that order, with their instances.
C5_Witness ==
    \E t \in Threads :
       /\ pc[t] = "done" /\ op[t] = "unload"
       /\ hooks[t] = <<"b">>
       /\ ret[t].outcome = "Nothing"
       /\ entry[t].keys = <<"a", "b", "c">>
       /\ keys_ = <<"a", "c">>
       /\ values_["a"] = entry[t].values["a"]
       /\ values_["c"] = entry[t].values["c"]

\* The instances of registry r are in the order ModuleManager::create made
\* them, which is the order of the insertions that succeeded.
InsertionOrdered(r) ==
    \A i, j \in DOMAIN r.keys :
       /\ i < j
       /\ r.values[r.keys[i]] # NULL
       /\ r.values[r.keys[j]] # NULL
       => r.values[r.keys[i]] < r.values[r.keys[j]]

\* The names of the hooks thread t has called, in the order of the calls.
Visited(t) == [i \in DOMAIN trace[t] |-> trace[t][i].name]

Dispatches ==
    Decorators \cup Notifications
    \cup {"slavePreLaunchDockerEnvironmentDecorator"}

Last(S) == CHOOSE i \in S : \A j \in S : j <= i

\* The result replaces field fld of the payload of decorator f.
Replaces(f, result, fld) ==
    result.kind = "some" /\ (f \in FieldDecorators \/ result.value[fld] # Unset)

\* Field fld as the last hook that replaced it gave it, the caller's when
\* no hook did.
LastReplacement(t, fld) ==
    LET replacing == {i \in DOMAIN trace[t] :
                         Replaces(op[t], trace[t][i].result, fld)}
    IN IF replacing = {} THEN input[t][fld]
       ELSE trace[t][Last(replacing)].result.value[fld]

\* C7: a decorator dispatch that has returned has called the hooks in
\* registry order and returns, in each field its hook type governs, the
\* value of the last hook that returned a replacement for it, and the
\* caller's value when no hook did.
C7_LastReplacementWins ==
    \A t \in Threads : pc[t] = "done" /\ op[t] \in Decorators =>
       /\ Visited(t) = entry[t].keys
       /\ ret[t].outcome = "value"
       /\ ret[t].value.field = LastReplacement(t, "field")
       /\ op[t] = "slaveTaskStatusDecorator" =>
             ret[t].value.container_status =
                LastReplacement(t, "container_status")

\* E1 set the field to v2 and E2 returned None(): the caller, who passed v1,
\* gets v2.
C7_Witness ==
    \E t \in Threads :
       /\ pc[t] = "done" /\ op[t] \in FieldDecorators
       /\ input[t].field = "v1"
       /\ Len(trace[t]) = 2
       /\ trace[t][1].result = Some(Payload("v2", Unset))
       /\ trace[t][2].result = None
       /\ ret[t].value.field = "v2"

\* C8: in a decorator dispatch a hook that returns an error leaves the
\* payload as it was when the hook was called: the next hook in registry
\* order is called with that payload, no hook is left out, and the caller
\* gets a value, not the error.
C8_ErrorLeavesPayload ==
    \A t \in Threads : op[t] \in Decorators =>
       /\ \A i \in DOMAIN trace[t] : trace[t][i].result.kind = "error" =>
             /\ i < Len(trace[t]) => trace[t][i + 1].arg = trace[t][i].arg
             /\ i = Len(trace[t]) => payload[t] = trace[t][i].arg
             /\ i = Len(trace[t]) /\ todo[t] # <<>> => pc[t] = "decorate"
       /\ pc[t] = "done" =>
             /\ Visited(t) = entry[t].keys
             /\ ret[t].outcome = "value"
             /\ ret[t].value = DecoratorValue(op[t], payload[t])

\* E1 set the field to v2, E2 returned an error and E3 was called with v2;
\* the caller got v2.
C8_Witness ==
    \E t \in Threads :
       /\ pc[t] = "done" /\ op[t] \in FieldDecorators
       /\ input[t].field = "v1"
       /\ Len(trace[t]) = 3
       /\ trace[t][1].result = Some(Payload("v2", Unset))
       /\ trace[t][2].result = Error
       /\ trace[t][3].arg.field = "v2"
       /\ trace[t][3].result = None
       /\ ret[t].value.field = "v2"

\* C9: a notification dispatch that has returned over a registry that has
\* not changed since the dispatch read it has called every hook of the
\* registry once, in registry order, whichever hooks returned an error.
C9_NotificationCallsEveryHookOnce ==
    \A t \in Threads :
       pc[t] = "done" /\ op[t] \in Notifications /\ Snapshot = entry[t] =>
          /\ Visited(t) = keys_
          /\ \A i \in DOMAIN trace[t] :
                /\ trace[t][i].hook = values_[keys_[i]]
                /\ trace[t][i].hook # NULL
          /\ \A i, j \in DOMAIN trace[t] :
                trace[t][i].name = trace[t][j].name => i = j

\* Of three hooks the second returned an error: the first and the third
\* were called once each, the third after the error.
C9_Witness ==
    \E t \in Threads :
       /\ pc[t] = "done" /\ op[t] \in Notifications /\ Snapshot = entry[t]
       /\ Visited(t) = <<"a", "b", "c">>
       /\ trace[t][1].result.kind = "some"
       /\ trace[t][2].result.kind = "error"
       /\ trace[t][3].result.kind = "some"

\* The names of the variables of an Environment.
VariableNames(environment) ==
    {environment[k].name : k \in DOMAIN environment}

\* The futures of thread t that are ready with an Environment that has a
\* variable named n.
Returning(t, n) ==
    {i \in DOMAIN futures[t] :
        /\ futures[t][i].state = "ready"
        /\ futures[t][i].value # Absent
        /\ n \in VariableNames(futures[t][i].value[1])}

\* The value Environment environment gives variable n: that of its last
\* variable of that name.
ValueIn(environment, n) ==
    environment[Last({k \in DOMAIN environment : environment[k].name = n})]
       .value

\* C10: when the future of every hook is ready, the fan-out has called the
\* hooks in registry order and its map holds exactly the variable names
\* that some hook returned, each with the value of the last hook in
\* registry order that returned it.
C10_LastHookWinsPerVariable ==
    \A t \in Threads :
       /\ op[t] = "slavePreLaunchDockerEnvironmentDecorator"
       /\ pc[t] = "done"
       /\ \A i \in DOMAIN futures[t] : futures[t][i].state = "ready"
       => /\ Visited(t) = entry[t].keys
          /\ Len(futures[t]) = Len(trace[t])
          /\ ret[t].outcome = "ready"
          /\ LET map == ret[t].value.field IN
             /\ \A n \in DOMAIN map : Returning(t, n) # {}
             /\ \A n \in {"FOO", "BAR"} : Returning(t, n) # {} =>
                   /\ n \in DOMAIN map
                   /\ map[n] = ValueIn(
                         futures[t][Last(Returning(t, n))].value[1], n)

\* E1 returned FOO=1 and E2, registered after it, FOO=2 and BAR=x: the map
\* is FOO=2, BAR=x.
C10_Witness ==
    \E t \in Threads :
       /\ op[t] = "slavePreLaunchDockerEnvironmentDecorator"
       /\ pc[t] = "done"
       /\ Visited(t) = <<"a", "b">>
       /\ futures[t] =
             << Future("ready", Present(<<Variable("FOO", "1")>>)),
                Future("ready", Present(<<Variable("FOO", "2"),
                                          Variable("BAR", "x")>>)) >>
       /\ ret[t].outcome = "ready"
       /\ DOMAIN ret[t].value.field = {"FOO", "BAR"}
       /\ ret[t].value.field["FOO"] = "2"
       /\ ret[t].value.field["BAR"] = "x"

\* The futures of thread t that have failed.
Failed(t) == {i \in DOMAIN futures[t] : futures[t][i].state = "failed"}

FanOut == "slavePreLaunchDockerEnvironmentDecorator"

\* C11: when the future of a hook of the fan-out has failed, the future the
\* caller holds is failed once it is no longer pending, it is never ready,
\* and it carries no map: the variables of the hooks that succeeded are not
\* delivered.
C11_FailureFailsFanOut ==
    \A t \in Threads : op[t] = FanOut /\ Failed(t) # {} =>
       /\ ret[t].outcome \in {"none", "failed"}
       /\ ret[t].value = NoPayload
       /\ pc[t] \in {"await", "done"} => ret[t].outcome = "failed"

\* E1 returned FOO=1 and the call of E2 failed: the caller gets the failure
\* and no map.
C11_Witness ==
    \E t \in Threads :
       /\ op[t] = FanOut /\ pc[t] = "done"
       /\ Len(futures[t]) = 2
       /\ futures[t][1] = Future("ready", Present(<<Variable("FOO", "1")>>))
       /\ futures[t][2].state = "failed"
       /\ ret[t] = Returned("failed", NoPayload)

\* Thread t has read an empty registry in the function it runs.
ReadEmpty(t) == entry[t].keys = <<>>

\* C12: a decorator that read an empty registry calls no hook and returns
\* what the caller passed: the labels, environment, resources or attributes
\* of the descriptor, or the whole status; a notification that read an empty
\* registry calls no hook, and its steps leave the registry, the mutex and
\* the instances as they are.
C12_NoHooksNoEffect ==
    /\ [](\A t \in Threads : ReadEmpty(t) =>
            /\ op[t] \in Decorators \cup Notifications => trace[t] = <<>>
            /\ op[t] \in FieldDecorators /\ pc[t] = "done" =>
                  ret[t] = Returned("value", Payload(input[t].field, Unset))
            /\ op[t] = "slaveTaskStatusDecorator" /\ pc[t] = "done" =>
                  ret[t] = Returned("value", input[t])
            /\ op[t] \in Notifications /\ pc[t] = "done" =>
                  ret[t].outcome = "void")
    /\ [][\A t \in Threads :
            /\ op'[t] \in Notifications
            /\ ReadEmpty(t)'
            /\ pc'[t] # pc[t]
            => UNCHANGED <<keys_, values_, mutex, created, crashed>>]_vars

\* With no hook loaded the status decorator has returned the status it was
\* given, container status included.
C12_Witness ==
    \E t \in Threads :
       /\ pc[t] = "done" /\ op[t] = "slaveTaskStatusDecorator"
       /\ ReadEmpty(t)
       /\ input[t] = Payload("v1", "v2")
       /\ ret[t] = Returned("value", Payload("v1", "v2"))

\* Thread u is inside the critical section of initialize or unload.
Mutates(u) == pc[u] \in {"initialize", "store", "unload"}

\* C13: while a decorator dispatch runs, it holds the mutex, no thread is
\* inside initialize or unload, and the registry is the one the dispatch
\* read when it entered; the hooks it calls are the instances of that
\* registry, in registry order, and when it returns it has called each of
\* them once.
C13_DecoratorDispatchIsAtomic ==
    \A t \in Threads : op[t] \in Decorators /\ ~Crashed =>
       /\ pc[t] = "decorate" =>
             /\ mutex = t
             /\ \A u \in Threads : ~Mutates(u)
             /\ Snapshot = entry[t]
       /\ Visited(t) \o todo[t] = entry[t].keys
       /\ \A i \in DOMAIN trace[t] :
             /\ trace[t][i].hook = entry[t].values[trace[t][i].name]
             /\ trace[t][i].hook # NULL
       /\ pc[t] = "done" =>
             /\ Visited(t) = entry[t].keys
             /\ \A i, j \in DOMAIN trace[t] :
                   trace[t][i].name = trace[t][j].name => i = j

\* A decorator called a and b; the unload of a by the other thread, which
\* had to wait for the mutex, took effect after the dispatch returned.
C13_Witness ==
    \E t, u \in Threads :
       /\ pc[t] = "done" /\ op[t] \in Decorators
       /\ Visited(t) = <<"a", "b">>
       /\ op[u] = "unload" /\ pc[u] = "done"
       /\ ret[u].outcome = "Nothing"
       /\ entry[u].keys = <<"a", "b">>
       /\ keys_ = <<"b">>

\* The dispatch functions that do not take the mutex.
LockFree == Notifications \cup {FanOut}

\* Thread t evaluates availableHooks[name] in this step and goes on to call
\* through the handle it got.
LooksUp(t) ==
    /\ op[t] \in LockFree
    /\ pc[t] \in {"notify", "fanout"}
    /\ todo[t] # <<>>
    /\ todo'[t] # todo[t] \/ crashed' = t

\* C14: a notification or fan-out dispatch that looks a name up finds an
\* entry of that name in the registry, also when the name was unloaded after
\* the dispatch read the list of names; it never calls through the default
\* handle of a name that is not there.
C14_LookupFindsEntry ==
    [][\A t \in Threads :
          LooksUp(t) => Contains(values_, Head(todo[t]))]_vars

\* C15: the names of the registry and their order change only in a step of
\* initialize or unload, never in a step of a dispatch.
C15_OnlyRegistryCallsChangeNames ==
    [][keys_' # keys_ =>
          \E t \in Threads :
             pc[t] \in {"initialize", "unload"} /\ pc'[t] # pc[t]]_vars

\* Field fld as the hooks called before the k-th left it: the value of the
\* last of them that replaced it, the caller's when none did.
Applied(t, fld, k) ==
    LET replacing == {i \in 1..(k - 1) :
                         Replaces(op[t], trace[t][i].result, fld)}
    IN IF replacing = {} THEN input[t][fld]
       ELSE trace[t][Last(replacing)].result.value[fld]

\* C16: the k-th hook of a decorator dispatch is called with the caller's
\* descriptor in which each governed field has the value the last of the
\* hooks 1..k-1 that replaced it gave it; hooks that returned None() or an
\* error have contributed nothing, and the other fields are the caller's.
C16_HookSeesEarlierReplacements ==
    \A t \in Threads : op[t] \in Decorators =>
       \A k \in DOMAIN trace[t] :
          LET arg == trace[t][k].arg IN
          /\ arg.field = Applied(t, "field", k)
          /\ arg.container_status =
                IF op[t] = "slaveTaskStatusDecorator"
                THEN Applied(t, "container_status", k)
                ELSE input[t].container_status
          /\ arg.state = input[t].state

\* E1 returned None() and was called with v1, E2 replaced it by v2 and E3
\* was called with v2.
C16_Witness ==
    \E t \in Threads :
       /\ op[t] \in FieldDecorators
       /\ input[t].field = "v1"
       /\ Len(trace[t]) = 3
       /\ trace[t][1].result = None
       /\ trace[t][2].arg.field = "v1"
       /\ trace[t][2].result = Some(Payload("v2", Unset))
       /\ trace[t][3].arg.field = "v2"

\* The status as the i-th hook call of thread t left it.
After(t, i) ==
    IF i < Len(trace[t]) THEN trace[t][i + 1].arg ELSE payload[t]

\* C17: in slaveTaskStatusDecorator a hook's status replaces the labels when
\* it has labels and leaves them when it has none, and likewise, on its own,
\* for the container status; a hook that returns None() or an error changes
\* neither; the state of the status is the caller's all along and in the
\* status returned.
C17_StatusFieldsAreIndependent ==
    \A t \in Threads : op[t] = "slaveTaskStatusDecorator" =>
       /\ \A i \in DOMAIN trace[t] :
             LET before == trace[t][i].arg
                 after == After(t, i)
                 result == trace[t][i].result
             IN /\ after.field =
                      IF result.kind = "some" /\ result.value.field # Unset
                      THEN result.value.field ELSE before.field
                /\ after.container_status =
                      IF /\ result.kind = "some"
                         /\ result.value.container_status # Unset
                      THEN result.value.container_status
                      ELSE before.container_status
                /\ after.state = input[t].state
       /\ payload[t].state = input[t].state
       /\ pc[t] = "done" =>
             /\ ret[t].value = payload[t]
             /\ ret[t].value.state = input[t].state

\* The caller passed labels v1 and container status v1; E1 returned a failed
\* status with labels v2 only, E2 one with container status v2 only: the
\* status returned has both, and the caller's state.
C17_Witness ==
    \E t \in Threads :
       /\ pc[t] = "done" /\ op[t] = "slaveTaskStatusDecorator"
       /\ input[t] = Payload("v1", "v1")
       /\ Len(trace[t]) = 3
       /\ trace[t][1].result = Some(Status("v2", Unset, "TASK_FAILED"))
       /\ After(t, 1) = Payload("v2", "v1")
       /\ trace[t][2].result = Some(Status(Unset, "v2", "TASK_FAILED"))
       /\ After(t, 2) = Payload("v2", "v2")
       /\ trace[t][3].result = None
       /\ ret[t].value = Payload("v2", "v2")

\* C18: the map of a fan-out whose futures are all ready is the one the
\* results give when combined in the order of the list, which is the order
\* of the registry, in whatever order the futures completed.
C18_MapIgnoresCompletionOrder ==
    \A t \in Threads :
       /\ op[t] = FanOut /\ pc[t] = "done"
       /\ \A i \in DOMAIN futures[t] : futures[t][i].state = "ready"
       => /\ Len(completed[t]) = Len(futures[t])
          /\ ret[t] = Returned("ready",
                         Payload(Combine(<<>>, futures[t]), Unset))

\* E2 completed with FOO=2 before E1, registered first, completed with
\* FOO=1: the map has FOO=2 all the same.
C18_Witness ==
    \E t \in Threads :
       /\ op[t] = FanOut /\ pc[t] = "done"
       /\ completed[t] = <<2, 1>>
       /\ futures[t] =
             << Future("ready", Present(<<Variable("FOO", "1")>>)),
                Future("ready", Present(<<Variable("FOO", "2"),
                                          Variable("BAR", "x")>>)) >>
       /\ ret[t].outcome = "ready"
       /\ ret[t].value.field["FOO"] = "2"

\* The futures of thread t that are still pending.
Pending(t) == {i \in DOMAIN futures[t] : futures[t][i].state = "pending"}

\* Thread t has called every hook of the list and all their futures are
\* ready.
AllReady(t) ==
    /\ op[t] = FanOut /\ pc[t] \in {"fanout", "await", "done"}
    /\ todo[t] = <<>>
    /\ \A i \in DOMAIN futures[t] : futures[t][i].state = "ready"

\* C19: the fan-out can call the next hook whatever the state of the futures
\* it already has; the caller's future is not ready while a hook's future is
\* pending, and stays pending as long as none has failed, for no step but
\* the completion of a hook's future ends the wait; once every hook's future
\* is ready, the caller's future becomes ready.
C19_FanOutWaitsForAll ==
    /\ [](\A t \in Threads : op[t] = FanOut =>
            /\ pc[t] = "fanout" /\ todo[t] # <<>> /\ ~Crashed
                  => ENABLED AsyncCall(t)
            /\ Pending(t) # {} => ret[t].outcome # "ready"
            /\ pc[t] = "await" =>
                  /\ Pending(t) # {} /\ Failed(t) = {}
                  /\ ret[t].outcome = "pending")
    /\ [][\A t \in Threads :
            pc[t] = "await" /\ pc'[t] # "await" =>
               Len(completed'[t]) = Len(completed[t]) + 1]_vars
    /\ \A t \in Threads : AllReady(t) ~> (ret[t].outcome = "ready")

\* E1 and E2 were both called; the future of E1 is ready, that of E2 is
\* pending, and the caller waits.
C19_Witness ==
    \E t \in Threads :
       /\ op[t] = FanOut /\ pc[t] = "await"
       /\ Len(futures[t]) = 2
       /\ futures[t][1].state = "ready"
       /\ futures[t][2].state = "pending"
       /\ completed[t] = <<1>>
       /\ ret[t].outcome = "pending"

\* Some hook of thread t returned variable n with value v.
ReturnedBy(t, n, v) ==
    \E i \in DOMAIN futures[t] :
       /\ futures[t][i].state = "ready"
       /\ futures[t][i].value # Absent
       /\ \E k \in DOMAIN futures[t][i].value[1] :
             futures[t][i].value[1][k] = Variable(n, v)

\* C20: every variable of the map of the fan-out was returned, with that
\* value, by a hook, whatever env the caller passed; a fan-out that has
\* called no hook, or only hooks whose futures are ready with None(), is
\* ready with an empty map.
C20_MapHoldsOnlyHookVariables ==
    \A t \in Threads : op[t] = FanOut /\ pc[t] \in {"await", "done"} =>
       /\ ret[t].outcome = "ready" =>
             \A n \in DOMAIN ret[t].value.field :
                ReturnedBy(t, n, ret[t].value.field[n])
       /\ (\A i \in DOMAIN futures[t] : futures[t][i] = Future("ready", Absent))
             => /\ pc[t] = "done"
                /\ ret[t].outcome = "ready"
                /\ DOMAIN ret[t].value.field = {}

\* The caller passed FOO=0 as env and both hooks returned None(): the map is
\* empty.
C20_Witness ==
    \E t \in Threads :
       /\ op[t] = FanOut /\ pc[t] = "done"
       /\ input[t].field = Present([n \in {"FOO"} |-> "0"])
       /\ futures[t] = <<Future("ready", Absent), Future("ready", Absent)>>
       /\ ret[t].outcome = "ready"
       /\ DOMAIN ret[t].value.field = {}

====
